---- MODULE Spec2Model ----
(***************************************************************************)
(* A model of annotationframeworkclient/chunkedgraph.py: the constructor   *)
(* ChunkedGraphClient, the class ChunkedGraphClientLegacy with its query   *)
(* operations, and the pure function package_bounds.                       *)
(*                                                                         *)
(* Strings that the code builds (URLs, the bounds parameter) are sequences *)
(* of one-character strings, so that formatting and re-splitting are       *)
(* computed and not assumed.  Python values that may be None are tagged    *)
(* records.  A 64-bit unsigned integer is four 16-bit limbs, least         *)
(* significant first, because TLC's integers are 32 bits wide.             *)
(***************************************************************************)
EXTENDS Integers, Sequences, FiniteSets, TLC

VARIABLES
    self,          \* the client object: state, _table_name, _default_timestamp, _endpoints, api_version
    ctor,          \* the arguments of the last ChunkedGraphClient(...) call and how it ended
    heap,          \* the dict objects: "self" is self._default_url_mapping, one per thread, "user"
    pc,            \* per thread: the position inside the running operation
    call,          \* per thread: the operation and its arguments
    frame,         \* per thread: the locals timestamp, endpoint_mapping (a reference) and url
    req,           \* per thread: the request the call handed to the session
    resp,          \* per thread: the response the session returned
    outcome,       \* per thread: how the call ended (a value or an exception)
    ncalls,        \* query-operation calls started
    nreached,      \* query-operation calls whose URL was built (they reached the request step)
    nrequests,     \* requests seen by the transport
    utcoffset,     \* seconds the process's local time zone is ahead of UTC
    pb             \* package_bounds applied to a drawn bounds box

vars == <<self, ctor, heap, pc, call, frame, req, resp, outcome,
          ncalls, nreached, nrequests, utcoffset, pb>>

----------------------------------------------------------------------------
(* Bounds of the model *)

MaxId == 2
MaxCalls == 2
MaxCoord == 2
CoordStep == 6
MaxPayloadLen == 17

----------------------------------------------------------------------------
(* Python values *)

NoneV == [tag |-> "none", n |-> 0, s |-> <<>>]
IntV(n) == [tag |-> "int", n |-> n, s |-> <<>>]
StrV(s) == [tag |-> "str", n |-> 0, s |-> s]

DigitChars == <<"0", "1", "2", "3", "4", "5", "6", "7", "8", "9">>

RECURSIVE NatStr(_)
NatStr(n) ==
    IF n < 10 THEN <<DigitChars[n + 1]>>
    ELSE NatStr(n \div 10) \o <<DigitChars[(n % 10) + 1]>>

\* str(i) of a Python integer
IntStr(i) == IF i < 0 THEN <<"-">> \o NatStr(-i) ELSE NatStr(i)

\* str(v) as format_map and str.join render a value
Str(v) ==
    CASE v.tag = "int" -> IntStr(v.n)
      [] v.tag = "str" -> v.s
      [] OTHER -> <<"N", "o", "n", "e">>

RECURSIVE Join(_, _)
Join(parts, sep) ==
    IF Len(parts) = 0 THEN <<>>
    ELSE IF Len(parts) = 1 THEN parts[1]
    ELSE parts[1] \o sep \o Join(Tail(parts), sep)

----------------------------------------------------------------------------
(* package_bounds *)

\* "-".join(str(b2) for b2 in b)
PairStr(b) == Join([i \in 1..Len(b) |-> IntStr(b[i])], <<"-">>)

\* a variant that joins the three pairs with "-" as well
package_bounds_one_separator(bounds) ==
    Join([i \in 1..Len(bounds) |-> PairStr(bounds[i])], <<"-">>)

package_bounds(bounds) ==
    Join([i \in 1..Len(bounds) |-> PairStr(bounds[i])], <<"_">>)

----------------------------------------------------------------------------
(* Reading a bounds string back: str.split and int *)

RECURSIVE Split(_, _)
Split(s, sep) ==
    IF \A i \in 1..Len(s) : s[i] # sep THEN <<s>>
    ELSE LET k == CHOOSE i \in 1..Len(s) :
                      s[i] = sep /\ \A j \in 1..(i - 1) : s[j] # sep
         IN <<SubSeq(s, 1, k - 1)>> \o Split(SubSeq(s, k + 1, Len(s)), sep)

DigitValue(c) == CHOOSE d \in 0..9 : DigitChars[d + 1] = c

IsDigits(s) ==
    Len(s) > 0 /\ \A i \in 1..Len(s) : \E d \in 0..9 : DigitChars[d + 1] = s[i]

RECURSIVE NatOf(_)
NatOf(s) ==
    IF Len(s) = 0 THEN 0
    ELSE 10 * NatOf(SubSeq(s, 1, Len(s) - 1)) + DigitValue(s[Len(s)])

\* int(s): ok is FALSE where Python raises ValueError
ParseInt(s) ==
    IF IsDigits(s) THEN [ok |-> TRUE, n |-> NatOf(s)]
    ELSE IF Len(s) > 1 /\ s[1] = "-" /\ IsDigits(Tail(s))
         THEN [ok |-> TRUE, n |-> 0 - NatOf(Tail(s))]
    ELSE [ok |-> FALSE, n |-> 0]

\* the parts of a bounds string: split on "_", then each part on "-"
Resplit(s) ==
    LET outer == Split(s, "_")
    IN [i \in 1..Len(outer) |-> Split(outer[i], "-")]

RECURSIVE Flatten(_)
Flatten(ss) == IF Len(ss) = 0 THEN <<>> ELSE ss[1] \o Flatten(Tail(ss))

----------------------------------------------------------------------------
(* Dicts, datetimes, JSON documents *)

EmptyDict == <<>>

\* d[k] = v on a dict
DictSet(d, k, v) == [x \in (DOMAIN d) \cup {k} |-> IF x = k THEN v ELSE d[x]]

BoolV(b) == [tag |-> "bool", n |-> IF b THEN 1 ELSE 0, s |-> <<>>]

NoTime == [tag |-> "none", sec |-> 0, usec |-> 0]
Time(sec, usec) == [tag |-> "time", sec |-> sec, usec |-> usec]

\* time.mktime(timestamp.timetuple()): the time tuple has no microseconds and
\* mktime reads its calendar fields as local time
mktime_timetuple(t, offset) == t.sec - offset

NoBounds == [some |-> FALSE, box |-> <<>>]
SomeBounds(b) == [some |-> TRUE, box |-> b]

JNum(n) == [kind |-> "num", n |-> n, items |-> <<>>]
JList(items) == [kind |-> "list", n |-> 0, items |-> items]

InvalidJson == [kind |-> "invalid", n |-> 0, items |-> <<>>, obj |-> <<>>]
JsonDoc(v) == [kind |-> v.kind, n |-> v.n, items |-> v.items, obj |-> <<>>]
JsonObj(obj) == [kind |-> "obj", n |-> 0, items |-> <<>>, obj |-> obj]

RootIdKey == <<"r", "o", "o", "t", "_", "i", "d">>
LeafIdsKey == <<"l", "e", "a", "f", "_", "i", "d", "s">>
ErrorKey == <<"e", "r", "r">>

----------------------------------------------------------------------------
(* Threads, operations, URL templates *)

Threads == {"t1", "t2"}

Ids == 1..MaxId

QueryOps == {"get_root_id", "get_merge_log", "get_change_log",
             "get_leaves", "get_children", "get_contact_sites"}

\* the key of self._endpoints each operation formats
EndpointOf(op) ==
    CASE op = "get_root_id" -> "handle_root"
      [] op = "get_merge_log" -> "merge_log"
      [] op = "get_change_log" -> "change_log"
      [] op = "get_leaves" -> "leaves_from_root"
      [] op = "get_children" -> "handle_children"
      [] op = "get_contact_sites" -> "contact_sites"
      [] OTHER -> "cloudvolume_path"

\* the key each operation adds to its endpoint_mapping
FieldOf(op) ==
    CASE op = "get_root_id" -> "supervoxel_id"
      [] op = "get_children" -> "node_id"
      [] OTHER -> "root_id"

\* The endpoint templates come from endpoints.py, which the client is handed.
\* A template is the sequence of its placeholder names; each is rendered after
\* a "/".  The families: "std" names table_id and the operation's own field,
\* "notable" leaves table_id out, "extra" adds a placeholder no call supplies,
\* "foreign" adds the field of another operation.
TemplateFamilies == {"std", "notable", "extra", "foreign"}

OwnPlaceholders(endpoint) ==
    CASE endpoint = "handle_root" -> <<"supervoxel_id">>
      [] endpoint = "handle_children" -> <<"node_id">>
      [] endpoint = "cloudvolume_path" -> <<>>
      [] OTHER -> <<"root_id">>

ForeignPlaceholder(endpoint) ==
    IF endpoint \in {"handle_root", "handle_children", "cloudvolume_path"}
    THEN "root_id" ELSE "supervoxel_id"

Template(family, endpoint) ==
    CASE family = "std" -> <<"table_id">> \o OwnPlaceholders(endpoint)
      [] family = "notable" -> OwnPlaceholders(endpoint)
      [] family = "extra" -> <<"table_id">> \o OwnPlaceholders(endpoint) \o <<"dataset">>
      [] OTHER -> <<"table_id">> \o OwnPlaceholders(endpoint)
                     \o <<ForeignPlaceholder(endpoint)>>

\* template.format_map(mapping): KeyError on the first placeholder the mapping lacks
format_map(template, mapping) ==
    IF \E i \in 1..Len(template) : template[i] \notin DOMAIN mapping
    THEN [ok |-> FALSE, url |-> <<>>,
          missing |-> template[CHOOSE i \in 1..Len(template) :
                                   /\ template[i] \notin DOMAIN mapping
                                   /\ \A j \in 1..(i - 1) : template[j] \in DOMAIN mapping]]
    ELSE [ok |-> TRUE,
          url |-> Flatten([i \in 1..Len(template) |-> <<"/">> \o Str(mapping[template[i]])]),
          missing |-> ""]

----------------------------------------------------------------------------
(* Construction *)

LatestV == [tag |-> "latest", n |-> 0]
VersionV(n) == [tag |-> "int", n |-> n]

\* the keys of client_mapping
client_mapping == {VersionV(0), VersionV(1), LatestV}

\* chunkedgraph_api_versions as the constructor may be handed it: version -> templates
Registries == {(0 :> "std"),
               (0 :> "notable") @@ (1 :> "extra") @@ (2 :> "std"),
               (0 :> "foreign") @@ (1 :> "std")}

SetMax(S) == CHOOSE x \in S : \A y \in S : y <= x

\* base._api_endpoints: the effective version and its templates, or ValueError
api_endpoints(api_version, registry) ==
    LET v == IF api_version = LatestV THEN SetMax(DOMAIN registry) ELSE api_version.n
    IN IF v \in DOMAIN registry
       THEN [ok |-> TRUE, api_version |-> VersionV(v), endpoints |-> registry[v]]
       ELSE [ok |-> FALSE, api_version |-> api_version, endpoints |-> "none"]

\* ClientBase.__init__: the mapping the subclass adds table_id to
ClientBaseUrlMapping == EmptyDict

NoSelf == [state |-> "none", table_name |-> NoneV, default_timestamp |-> NoTime,
           endpoints |-> "none", api_version |-> LatestV]

NoCtor == [outcome |-> "none", api_version |-> LatestV, registry |-> <<>>,
           table_name |-> NoneV, timestamp |-> NoTime]

\* a variant that looks the requested version up in client_mapping without
\* resolving it against the registry first
ChunkedGraphClientUnresolved(api_version, registry) ==
    IF api_version \in client_mapping
    THEN [outcome |-> "ok", api_version |-> api_version,
          endpoints |-> registry[SetMax(DOMAIN registry)]]
    ELSE [outcome |-> "KeyError", api_version |-> api_version, endpoints |-> "none"]

\* ChunkedGraphClient(...): which class is built, or the exception raised
ChunkedGraphClientResult(api_version, registry) ==
    LET r == api_endpoints(api_version, registry)
    IN IF ~r.ok THEN [outcome |-> "ValueError", api_version |-> api_version, endpoints |-> "none"]
       ELSE IF r.api_version \notin client_mapping
            THEN [outcome |-> "KeyError", api_version |-> r.api_version, endpoints |-> "none"]
       ELSE [outcome |-> "ok", api_version |-> r.api_version, endpoints |-> r.endpoints]

\* a variant that stores table_id only when a table name was given
InitialUrlMappingSkipNone(table_name) ==
    IF table_name = NoneV THEN ClientBaseUrlMapping
    ELSE DictSet(ClientBaseUrlMapping, "table_id", table_name)

\* self._default_url_mapping after __init__
InitialUrlMapping(table_name) == DictSet(ClientBaseUrlMapping, "table_id", table_name)

TableNames == {NoneV, StrV(<<"t", "b", "l">>)}
DefaultTimes == {NoTime, Time(200, 750)}
ExplicitTimes == {Time(100, 0), Time(101, 500)}
NowTimes == {Time(300, 250)}
ApiVersions == {LatestV} \cup {VersionV(n) : n \in 0..3}

CtorArgs == [api_version : ApiVersions, registry : Registries,
             table_name : TableNames, timestamp : DefaultTimes]

\* the arguments the shared-client specification constructs with
SharedCtorArgs == {a \in CtorArgs : /\ a.api_version = VersionV(0)
                                    /\ a.registry[0] \in {"std", "foreign"}
                                    /\ a.timestamp = NoTime}

\* ChunkedGraphClient(...) followed by ChunkedGraphClientLegacy.__init__
Construct(args) ==
    /\ ctor.outcome = "none"
    /\ LET r == ChunkedGraphClientResult(args.api_version, args.registry)
       IN /\ ctor' = [outcome |-> r.outcome, api_version |-> args.api_version,
                      registry |-> args.registry, table_name |-> args.table_name,
                      timestamp |-> args.timestamp]
          /\ IF r.outcome = "ok"
             THEN /\ self' = [state |-> "ready", table_name |-> args.table_name,
                              default_timestamp |-> args.timestamp,
                              endpoints |-> r.endpoints, api_version |-> r.api_version]
                  /\ heap' = [heap EXCEPT !["self"] = InitialUrlMapping(args.table_name)]
             ELSE UNCHANGED <<self, heap>>
    /\ UNCHANGED <<pc, call, frame, req, resp, outcome,
                   ncalls, nreached, nrequests, utcoffset, pb>>

----------------------------------------------------------------------------
(* One call of a query operation, statement by statement *)

NoCall == [op |-> "none", id |-> 0, timestamp |-> NoTime, utcnow |-> NoTime,
           bounds |-> NoBounds, calc_partners |-> FALSE]
NoFrame == [timestamp |-> NoTime, endpoint_mapping |-> "none", url |-> <<>>]
NoJsonBody == [present |-> FALSE, data |-> <<>>]
JsonBody(data) == [present |-> TRUE, data |-> data]
NoReq == [method |-> "none", url |-> <<>>, params |-> EmptyDict, json |-> NoJsonBody]
NoResp == [status |-> 0, content |-> <<>>, json |-> InvalidJson]
NoValue == [kind |-> "none", n |-> 0, items |-> <<>>, obj |-> <<>>]
NoOutcome == [kind |-> "none", where |-> "", status |-> 0, value |-> NoValue,
              decoded |-> FALSE]

\* the bounds boxes a caller passes in the client specifications
CallBoxes == {<<<<0, 10>>, <<0, 20>>, <<5, 30>>>>}

\* the arguments of a call of op; utcnow is what datetime.datetime.utcnow()
\* returns if the call reads the clock
CallArgs(op) ==
    {c \in [op : {op}, id : Ids, timestamp : {NoTime} \cup ExplicitTimes,
            utcnow : NowTimes, bounds : {NoBounds} \cup {SomeBounds(b) : b \in CallBoxes},
            calc_partners : BOOLEAN] :
        /\ (op # "get_root_id" => c.timestamp = NoTime)
        /\ (op \notin {"get_leaves", "get_contact_sites"} => c.bounds = NoBounds)
        /\ (op # "get_contact_sites" => c.calc_partners = FALSE)}

\* the arguments the shared-client specification calls with
SharedCallArgs(op) ==
    {c \in CallArgs(op) : c.timestamp = NoTime /\ c.bounds = NoBounds /\ ~c.calc_partners}

\* a variant that never reads the clock
ResolveTimestampNoClock(timestamp, default_timestamp, utcnow) ==
    IF timestamp = NoTime THEN default_timestamp ELSE timestamp

\* a variant in which the client's default wins over the argument
ResolveTimestampDefaultFirst(timestamp, default_timestamp, utcnow) ==
    IF default_timestamp # NoTime THEN default_timestamp
    ELSE IF timestamp # NoTime THEN timestamp ELSE utcnow

\* get_root_id, the first statement: the timestamp the call goes on with
ResolveTimestamp(timestamp, default_timestamp, utcnow) ==
    IF timestamp = NoTime
    THEN IF default_timestamp # NoTime THEN default_timestamp ELSE utcnow
    ELSE timestamp

\* a variant that returns the stored dict itself
default_url_mapping_aliased(h, holder) == [ref |-> "self", heap |-> h]

\* the property default_url_mapping: a copy of the stored dict, held by `holder`
default_url_mapping(h, holder) ==
    [ref |-> holder, heap |-> [h EXCEPT ![holder] = h["self"]]]

\* the first statements of a query operation, up to
\* endpoint_mapping = self.default_url_mapping
Begin(t, c) ==
    /\ self.state = "ready"
    /\ pc[t] \in {"idle", "done"}
    /\ ncalls < MaxCalls
    /\ LET m == default_url_mapping(heap, t)
       IN /\ heap' = m.heap
          /\ frame' = [frame EXCEPT ![t] =
                [timestamp |-> IF c.op = "get_root_id"
                               THEN ResolveTimestamp(c.timestamp, self.default_timestamp, c.utcnow)
                               ELSE NoTime,
                 endpoint_mapping |-> m.ref,
                 url |-> <<>>]]
    /\ call' = [call EXCEPT ![t] = c]
    /\ pc' = [pc EXCEPT ![t] = "copied"]
    /\ req' = [req EXCEPT ![t] = NoReq]
    /\ resp' = [resp EXCEPT ![t] = NoResp]
    /\ outcome' = [outcome EXCEPT ![t] = NoOutcome]
    /\ ncalls' = ncalls + 1
    /\ UNCHANGED <<self, ctor, nreached, nrequests, utcoffset, pb>>

\* endpoint_mapping[<field>] = <id>
SetField(t) ==
    /\ pc[t] = "copied"
    /\ heap' = [heap EXCEPT ![frame[t].endpoint_mapping] =
                   DictSet(@, FieldOf(call[t].op), IntV(call[t].id))]
    /\ pc' = [pc EXCEPT ![t] = "mapped"]
    /\ UNCHANGED <<self, ctor, call, frame, req, resp, outcome,
                   ncalls, nreached, nrequests, utcoffset, pb>>

\* url = self._endpoints[...].format_map(endpoint_mapping)
BuildUrl(t) ==
    /\ pc[t] = "mapped"
    /\ LET f == format_map(Template(self.endpoints, EndpointOf(call[t].op)),
                           heap[frame[t].endpoint_mapping])
       IN IF f.ok
          THEN /\ frame' = [frame EXCEPT ![t].url = f.url]
               /\ pc' = [pc EXCEPT ![t] = "built"]
               /\ nreached' = nreached + 1
               /\ UNCHANGED outcome
          ELSE /\ outcome' = [outcome EXCEPT ![t] =
                      [kind |-> "KeyError", where |-> "format_map", status |-> 0,
                       value |-> NoValue, decoded |-> FALSE]]
               /\ pc' = [pc EXCEPT ![t] = "done"]
               /\ UNCHANGED <<frame, nreached>>
    /\ UNCHANGED <<self, ctor, heap, call, req, resp, ncalls, nrequests, utcoffset, pb>>

\* the query parameters of get_root_id (the statements after the URL is built)
RootIdParams(timestamp, default_timestamp, offset) ==
    LET ts == IF timestamp = NoTime THEN default_timestamp ELSE timestamp
    IN IF ts # NoTime
       THEN ("timestamp" :> IntV(mktime_timetuple(ts, offset)))
       ELSE EmptyDict

\* query_d of get_leaves and get_contact_sites
BoundsParams(bounds) ==
    IF bounds.some THEN ("bounds" :> StrV(package_bounds(bounds.box))) ELSE EmptyDict

\* a variant in which get_children posts its node id as a JSON body
BuildRequestChildrenBody(c, url, timestamp, default_timestamp, offset) ==
    [method |-> IF c.op \in {"get_root_id", "get_leaves"} THEN "GET" ELSE "POST",
     url |-> url,
     params |-> CASE c.op = "get_root_id" -> RootIdParams(timestamp, default_timestamp, offset)
                  [] c.op = "get_leaves" -> BoundsParams(c.bounds)
                  [] c.op = "get_contact_sites" ->
                        BoundsParams(c.bounds) @@ ("partners" :> BoolV(c.calc_partners))
                  [] OTHER -> EmptyDict,
     json |-> IF c.op \in {"get_root_id", "get_leaves"} THEN NoJsonBody ELSE JsonBody(<<c.id>>)]

\* the call each operation makes on self.session
BuildRequest(c, url, timestamp, default_timestamp, offset) ==
    CASE c.op = "get_root_id" ->
            [method |-> "GET", url |-> url,
             params |-> RootIdParams(timestamp, default_timestamp, offset),
             json |-> NoJsonBody]
      [] c.op \in {"get_merge_log", "get_change_log"} ->
            [method |-> "POST", url |-> url, params |-> EmptyDict,
             json |-> JsonBody(<<c.id>>)]
      [] c.op = "get_leaves" ->
            [method |-> "GET", url |-> url, params |-> BoundsParams(c.bounds),
             json |-> NoJsonBody]
      [] c.op = "get_children" ->
            [method |-> "POST", url |-> url, params |-> EmptyDict, json |-> NoJsonBody]
      [] OTHER ->
            [method |-> "POST", url |-> url,
             params |-> BoundsParams(c.bounds) @@ ("partners" :> BoolV(c.calc_partners)),
             json |-> JsonBody(<<c.id>>)]

----------------------------------------------------------------------------
(* The transport and the responses it may return *)

Statuses == {200, 404, 503}

\* payloads of a raw-binary response: every length up to the bound, two byte patterns
Payload(len, seed) == [i \in 1..len |-> (seed * i + i * i) % 256]
Payloads == {Payload(len, seed) : len \in 0..MaxPayloadLen, seed \in {7, 131}}

ErrorDoc == JsonObj(ErrorKey :> JNum(1))

\* what the server may answer to each operation; the text of a JSON body is not
\* kept, no operation that parses JSON reads response.content
Bodies(op) ==
    CASE op = "get_root_id" ->
            {[content |-> <<>>, json |-> j] :
                j \in {JsonObj(RootIdKey :> JNum(7)), ErrorDoc, InvalidJson}}
      [] op \in {"get_merge_log", "get_change_log"} ->
            {[content |-> <<>>, json |-> j] :
                j \in {JsonDoc(JList(<<1, 2>>)), ErrorDoc, InvalidJson}}
      [] op = "get_leaves" ->
            {[content |-> <<>>, json |-> j] :
                j \in {JsonObj(LeafIdsKey :> JList(<<3, 4>>)), ErrorDoc, InvalidJson}}
      [] op = "get_children" ->
            {[content |-> p, json |-> InvalidJson] : p \in Payloads}
      [] OTHER ->
            {[content |-> <<>>, json |-> j] :
                j \in {JsonObj((<<"1", "0", "1">> :> JNum(5)) @@ (<<"2", "0", "2">> :> JNum(6))),
                       ErrorDoc, JsonDoc(JList(<<>>)), InvalidJson}}

Responses(op) ==
    {[status |-> st, content |-> b.content, json |-> b.json] :
        st \in Statuses, b \in Bodies(op)}

\* the responses of the shared-client specification
SharedResponses(op) ==
    {r \in Responses(op) : r.status = 200 /\ r.json # ErrorDoc /\ Len(r.content) = 8}

\* a variant that sends the request again when the response is an error
SendRetrying(t, r) ==
    /\ pc[t] = "built"
    /\ req' = [req EXCEPT ![t] =
                  BuildRequest(call[t], frame[t].url, frame[t].timestamp,
                               self.default_timestamp, utcoffset)]
    /\ resp' = [resp EXCEPT ![t] = r]
    /\ nrequests' = nrequests + (IF r.status >= 400 THEN 2 ELSE 1)
    /\ pc' = [pc EXCEPT ![t] = "responded"]
    /\ UNCHANGED <<self, ctor, heap, call, frame, outcome, ncalls, nreached, utcoffset, pb>>

\* session.get / session.post returns a response
Send(t, r) ==
    /\ pc[t] = "built"
    /\ req' = [req EXCEPT ![t] =
                  BuildRequest(call[t], frame[t].url, frame[t].timestamp,
                               self.default_timestamp, utcoffset)]
    /\ resp' = [resp EXCEPT ![t] = r]
    /\ nrequests' = nrequests + 1
    /\ pc' = [pc EXCEPT ![t] = "responded"]
    /\ UNCHANGED <<self, ctor, heap, call, frame, outcome, ncalls, nreached, utcoffset, pb>>

\* session.get / session.post raises: the transport gave no response
TransportFails(t) ==
    /\ pc[t] = "built"
    /\ req' = [req EXCEPT ![t] =
                  BuildRequest(call[t], frame[t].url, frame[t].timestamp,
                               self.default_timestamp, utcoffset)]
    /\ nrequests' = nrequests + 1
    /\ outcome' = [outcome EXCEPT ![t] =
          [kind |-> "ConnectionError", where |-> "session", status |-> 0,
           value |-> NoValue, decoded |-> FALSE]]
    /\ pc' = [pc EXCEPT ![t] = "done"]
    /\ UNCHANGED <<self, ctor, heap, call, frame, resp, ncalls, nreached, utcoffset, pb>>

----------------------------------------------------------------------------
(* After the response: raise_for_status and the decoding *)

\* requests.Response.raise_for_status raises for 4xx and 5xx
RaisesForStatus(status) == status >= 400 /\ status < 600

HTTPError(status) ==
    [kind |-> "HTTPError", where |-> "raise_for_status", status |-> status,
     value |-> NoValue, decoded |-> FALSE]
Raised(kind) ==
    [kind |-> kind, where |-> "decode", status |-> 0, value |-> NoValue, decoded |-> TRUE]
Returned(v) ==
    [kind |-> "value", where |-> "return", status |-> 0, value |-> v, decoded |-> TRUE]

\* response.json()[key]
json_field(doc, key) ==
    CASE doc.kind = "invalid" -> Raised("ValueError")
      [] doc.kind # "obj" -> Raised("TypeError")
      [] key \notin DOMAIN doc.obj -> Raised("KeyError")
      [] OTHER -> Returned(JsonDoc(doc.obj[key]))

\* response.json()
json_any(doc) ==
    IF doc.kind = "invalid" THEN Raised("ValueError") ELSE Returned(doc)

uint64_itemsize == 8

\* a variant that reads the eight bytes most significant first
uint64_of_big_endian(b) == [k \in 1..4 |-> b[10 - 2 * k] + 256 * b[9 - 2 * k]]

\* one element of the buffer: bytes in the machine's byte order, which is
\* little-endian on the platforms the client runs on.  Four 16-bit limbs.
uint64_of(b) == [k \in 1..4 |-> b[2 * k - 1] + 256 * b[2 * k]]

\* np.frombuffer(content, dtype=np.uint64)
frombuffer(content) ==
    IF Len(content) % uint64_itemsize # 0 THEN Raised("ValueError")
    ELSE Returned([kind |-> "array", n |-> 0, obj |-> <<>>,
                   items |-> [i \in 1..(Len(content) \div uint64_itemsize) |->
                       uint64_of(SubSeq(content, uint64_itemsize * (i - 1) + 1,
                                        uint64_itemsize * i))]])

\* {int(k): v for k, v in response.json().items()}
int_keyed(doc) ==
    CASE doc.kind = "invalid" -> Raised("ValueError")
      [] doc.kind # "obj" -> Raised("AttributeError")
      [] \E k \in DOMAIN doc.obj : ~ParseInt(k).ok -> Raised("ValueError")
      [] OTHER ->
            Returned([kind |-> "map", n |-> 0, items |-> <<>>,
                      obj |-> [i \in {ParseInt(k).n : k \in DOMAIN doc.obj} |->
                                  doc.obj[CHOOSE k \in DOMAIN doc.obj : ParseInt(k).n = i]]])

\* whether the operation calls response.raise_for_status() before decoding
ChecksStatus(op) == op # "get_contact_sites"

\* the ways the statements after the request can end.  np.int64(list, dtype=...)
\* in get_leaves is accepted or rejected with TypeError depending on the numpy
\* version, so both are outcomes.
Outcomes(op, r) ==
    IF ChecksStatus(op) /\ RaisesForStatus(r.status) THEN {HTTPError(r.status)}
    ELSE CASE op = "get_root_id" -> {json_field(r.json, RootIdKey)}
           [] op \in {"get_merge_log", "get_change_log"} -> {json_any(r.json)}
           [] op = "get_leaves" ->
                 LET o == json_field(r.json, LeafIdsKey)
                 IN IF o.kind = "value" THEN {o, Raised("TypeError")} ELSE {o}
           [] op = "get_children" -> {frombuffer(r.content)}
           [] OTHER -> {int_keyed(r.json)}

\* response.raise_for_status() and the return statement
Finish(t) ==
    /\ pc[t] = "responded"
    /\ \E o \in Outcomes(call[t].op, resp[t]) : outcome' = [outcome EXCEPT ![t] = o]
    /\ pc' = [pc EXCEPT ![t] = "done"]
    /\ UNCHANGED <<self, ctor, heap, call, frame, req, resp,
                   ncalls, nreached, nrequests, utcoffset, pb>>

----------------------------------------------------------------------------
(* The property cloudvolume_path and a caller changing the mapping it was given *)

CloudvolumeCall == [NoCall EXCEPT !.op = "cloudvolume_path"]

\* self._endpoints['cloudvolume_path'].format_map(self.default_url_mapping)
CloudvolumePath(t) ==
    /\ self.state = "ready"
    /\ pc[t] \in {"idle", "done"}
    /\ LET m == default_url_mapping(heap, t)
           f == format_map(Template(self.endpoints, "cloudvolume_path"), m.heap[m.ref])
       IN /\ heap' = m.heap
          /\ frame' = [frame EXCEPT ![t] =
                [timestamp |-> NoTime, endpoint_mapping |-> m.ref, url |-> f.url]]
          /\ outcome' = [outcome EXCEPT ![t] =
                IF f.ok
                THEN [kind |-> "value", where |-> "return", status |-> 0, decoded |-> FALSE,
                      value |-> [kind |-> "str", n |-> 0, items |-> f.url, obj |-> <<>>]]
                ELSE [kind |-> "KeyError", where |-> "format_map", status |-> 0,
                      value |-> NoValue, decoded |-> FALSE]]
    /\ call' = [call EXCEPT ![t] = CloudvolumeCall]
    /\ pc' = [pc EXCEPT ![t] = "done"]
    /\ req' = [req EXCEPT ![t] = NoReq]
    /\ resp' = [resp EXCEPT ![t] = NoResp]
    /\ UNCHANGED <<self, ctor, ncalls, nreached, nrequests, utcoffset, pb>>

\* m = client.default_url_mapping; m[k] = v, by code that holds the client
MutateReturnedMapping(k, v) ==
    /\ self.state = "ready"
    /\ LET m == default_url_mapping(heap, "user")
       IN heap' = [m.heap EXCEPT ![m.ref] = DictSet(@, k, v)]
    /\ UNCHANGED <<self, ctor, pc, call, frame, req, resp, outcome,
                   ncalls, nreached, nrequests, utcoffset, pb>>

----------------------------------------------------------------------------
(* The pure-function specification: package_bounds on a drawn box *)

Coords == {c * CoordStep : c \in (0 - MaxCoord)..MaxCoord}

Boxes == {<<<<a, b>>, <<c, d>>, <<e, f>>>> :
             a \in Coords, b \in Coords, c \in Coords,
             d \in Coords, e \in Coords, f \in Coords}

PbIdle == [stage |-> "idle", bounds |-> <<>>, str |-> <<>>]

\* the box is handed to package_bounds
PackageBounds ==
    /\ pb.stage = "input"
    /\ pb' = [pb EXCEPT !.stage = "packed", !.str = package_bounds(pb.bounds)]
    /\ UNCHANGED <<self, ctor, heap, pc, call, frame, req, resp, outcome,
                   ncalls, nreached, nrequests, utcoffset>>

----------------------------------------------------------------------------
(* Specifications *)

HeapIds == {"self", "user"} \cup Threads

Init ==
    /\ self = NoSelf
    /\ ctor = NoCtor
    /\ heap = [o \in HeapIds |-> EmptyDict]
    /\ pc = [t \in Threads |-> "idle"]
    /\ call = [t \in Threads |-> NoCall]
    /\ frame = [t \in Threads |-> NoFrame]
    /\ req = [t \in Threads |-> NoReq]
    /\ resp = [t \in Threads |-> NoResp]
    /\ outcome = [t \in Threads |-> NoOutcome]
    /\ ncalls = 0
    /\ nreached = 0
    /\ nrequests = 0
    /\ utcoffset \in {0, 3600}
    /\ pb = PbIdle

\* one caller, every argument and every response
Next ==
    \/ \E a \in CtorArgs : Construct(a)
    \/ \E op \in QueryOps : \E c \in CallArgs(op) : Begin("t1", c)
    \/ SetField("t1")
    \/ BuildUrl("t1")
    \/ \E r \in Responses(call["t1"].op) : Send("t1", r)
    \/ TransportFails("t1")
    \/ Finish("t1")
    \/ CloudvolumePath("t1")

Spec == Init /\ [][Next]_vars

\* two threads share the client, and a caller changes the mapping the accessor gave it
NextShared ==
    \/ \E a \in SharedCtorArgs : Construct(a)
    \/ \E t \in Threads : \E op \in QueryOps : \E c \in SharedCallArgs(op) : Begin(t, c)
    \/ \E t \in Threads : SetField(t)
    \/ \E t \in Threads : BuildUrl(t)
    \/ \E t \in Threads : \E r \in SharedResponses(call[t].op) : Send(t, r)
    \/ \E t \in Threads : Finish(t)
    \/ \E t \in Threads : CloudvolumePath(t)
    \/ \E k \in {"table_id", "root_id"} : \E v \in {IntV(i) : i \in Ids} :
          MutateReturnedMapping(k, v)

SpecShared == Init /\ [][NextShared]_vars

InitBounds ==
    /\ self = NoSelf
    /\ ctor = NoCtor
    /\ heap = [o \in HeapIds |-> EmptyDict]
    /\ pc = [t \in Threads |-> "idle"]
    /\ call = [t \in Threads |-> NoCall]
    /\ frame = [t \in Threads |-> NoFrame]
    /\ req = [t \in Threads |-> NoReq]
    /\ resp = [t \in Threads |-> NoResp]
    /\ outcome = [t \in Threads |-> NoOutcome]
    /\ ncalls = 0
    /\ nreached = 0
    /\ nrequests = 0
    /\ utcoffset = 0
    /\ pb \in {[stage |-> "input", bounds |-> b, str |-> <<>>] : b \in Boxes}

NextBounds == PackageBounds

SpecBounds == InitBounds /\ [][NextBounds]_vars

----------------------------------------------------------------------------
(* The claims *)

\* the call of thread t has handed a request to the session
Sent(t) == req[t].method # "none"

\* the call of thread t got a response and has ended
Answered(t) == pc[t] = "done" /\ resp[t].status # 0

NonSuccess(status) == status < 200 \/ status >= 300

\* C1 (as stated): whenever a query operation's response has a non-success
\* status, the call ends with an HTTP error carrying that status, the body is
\* never decoded and no value is returned.
C1_ErrorStatusEndsInHttpError ==
    \A t \in Threads :
        (Answered(t) /\ call[t].op \in QueryOps /\ NonSuccess(resp[t].status)) =>
            /\ outcome[t].kind = "HTTPError"
            /\ outcome[t].status = resp[t].status
            /\ ~outcome[t].decoded
            /\ outcome[t].value = NoValue

\* C2 (as stated): a get_root_id request made with no explicit timestamp on a
\* client without default timestamp carries no timestamp parameter; with an
\* explicit timestamp it carries that timestamp's epoch seconds.
C2_NoTimestampOmitsParameter ==
    \A t \in Threads :
        (Sent(t) /\ call[t].op = "get_root_id") =>
            /\ (call[t].timestamp = NoTime /\ ctor.timestamp = NoTime) =>
                   "timestamp" \notin DOMAIN req[t].params
            /\ call[t].timestamp # NoTime =>
                   /\ "timestamp" \in DOMAIN req[t].params
                   /\ req[t].params["timestamp"] = IntV(call[t].timestamp.sec - utcoffset)

\* C2 (amended): a get_root_id request made with no explicit timestamp on a
\* client without default timestamp carries timestamp = the conversion of the
\* UTC time the call read from the clock; with an explicit timestamp it carries
\* the conversion of that timestamp.  The conversion is mktime of the time
\* tuple: whole seconds, the calendar fields read as local time.
C2_NoTimestampSendsClock ==
    \A t \in Threads :
        (Sent(t) /\ call[t].op = "get_root_id") =>
            /\ DOMAIN req[t].params = {"timestamp"}
            /\ (call[t].timestamp = NoTime /\ ctor.timestamp = NoTime) =>
                   req[t].params["timestamp"] = IntV(call[t].utcnow.sec - utcoffset)
            /\ call[t].timestamp # NoTime =>
                   req[t].params["timestamp"] = IntV(call[t].timestamp.sec - utcoffset)

C2_Witness ==
    \E t \in Threads :
        /\ Sent(t) /\ call[t].op = "get_root_id"
        /\ call[t].timestamp = NoTime /\ ctor.timestamp = NoTime
        /\ utcoffset # 0

\* the URL a call must request: every placeholder of its template is table_id
\* or the call's own field, rendered from the constructor's table name and the
\* call's own id
ExpectedUrl(t) ==
    LET tpl == Template(self.endpoints, EndpointOf(call[t].op))
    IN Flatten([i \in 1..Len(tpl) |->
           <<"/">> \o (IF tpl[i] = "table_id" THEN Str(ctor.table_name)
                       ELSE IntStr(call[t].id))])

OwnFields(op) ==
    CASE op = "get_root_id" -> {"supervoxel_id"}
      [] op = "get_children" -> {"node_id"}
      [] op = "cloudvolume_path" -> {}
      [] OTHER -> {"root_id"}

\* some placeholder of the template of t's operation is neither in `defaults`
\* nor the call's own field
LacksField(t, defaults) ==
    LET tpl == Template(self.endpoints, EndpointOf(call[t].op))
    IN \E i \in 1..Len(tpl) : tpl[i] \notin defaults \cup OwnFields(call[t].op)

\* C3: under any interleaving of the operations of two threads on one client,
\* and of a caller writing into the mapping the accessor returned, every
\* request URL is built from the construction-time mapping and the fields of
\* that same call only, and the stored mapping stays {table_id: table name}.
C3_CallsDoNotInterfere ==
    /\ self.state = "ready" =>
           /\ DOMAIN heap["self"] = {"table_id"}
           /\ heap["self"]["table_id"] = ctor.table_name
    /\ \A t \in Threads :
           (Sent(t) \/ pc[t] = "built") =>
               /\ ~LacksField(t, {"table_id"})
               /\ frame[t].url = ExpectedUrl(t)
               /\ Sent(t) => req[t].url = ExpectedUrl(t)
    /\ \A t \in Threads :
           (pc[t] = "done" /\ call[t].op = "cloudvolume_path"
               /\ outcome[t].kind = "value") =>
               /\ ~LacksField(t, {"table_id"})
               /\ outcome[t].value.items = ExpectedUrl(t)

C3_Witness ==
    /\ pc["t1"] = "mapped"
    /\ Sent("t2") /\ pc["t2"] = "responded"
    /\ call["t1"].op = call["t2"].op
    /\ call["t1"].id # call["t2"].id
    /\ "root_id" \in DOMAIN heap["user"]
    /\ heap["user"]["root_id"] # IntV(call["t1"].id)

Quiescent == \A t \in Threads : pc[t] \in {"idle", "done"}

\* C4: each query call issues exactly one request, whether it succeeds or
\* fails; cloudvolume_path issues none; so once no call is running, the
\* transport has seen as many requests as calls reached the request step.
C4_OneRequestPerCall ==
    /\ Quiescent => nrequests = nreached
    /\ nrequests <= ncalls
    /\ \A t \in Threads :
           /\ (pc[t] = "done" /\ call[t].op = "cloudvolume_path") => ~Sent(t)
           /\ (pc[t] = "done" /\ call[t].op \in QueryOps) =>
                  (Sent(t) <=> outcome[t].where # "format_map")
           /\ pc[t] = "responded" => nrequests = nreached

C4_Witness ==
    /\ Quiescent
    /\ nrequests = 2
    /\ Answered("t1") /\ resp["t1"].status = 503
    /\ outcome["t1"].kind = "HTTPError"

\* C5: the method and body of a request are fixed by the operation: GET
\* without body for get_root_id and get_leaves; POST with the JSON body
\* [root_id], the root id substituted into the URL, for get_merge_log,
\* get_change_log and get_contact_sites; POST without body for get_children.
C5_MethodAndBody ==
    \A t \in Threads :
        Sent(t) =>
            CASE call[t].op \in {"get_root_id", "get_leaves"} ->
                    req[t].method = "GET" /\ ~req[t].json.present
              [] call[t].op = "get_children" ->
                    req[t].method = "POST" /\ ~req[t].json.present
              [] OTHER ->
                    /\ req[t].method = "POST"
                    /\ req[t].json.present
                    /\ Len(req[t].json.data) = 1
                    /\ IntV(req[t].json.data[1]) = heap[frame[t].endpoint_mapping]["root_id"]
                    /\ req[t].json.data[1] = call[t].id

C5_Witness ==
    /\ Sent("t1") /\ call["t1"].op = "get_children"
    /\ call["t1"].id = 2
    /\ pc["t1"] = "done" /\ outcome["t1"].kind = "value"

\* splitting s on "_" and each part on "-" gives the six integers of box b
RoundTrips(b, s) ==
    LET parts == Resplit(s)
    IN /\ Len(parts) = 3
       /\ \A i \in 1..3 :
              /\ Len(parts[i]) = 2
              /\ \A j \in 1..2 : ParseInt(parts[i][j]) = [ok |-> TRUE, n |-> b[i][j]]

NonNegative(b) == \A i \in 1..3 : \A j \in 1..2 : b[i][j] >= 0

\* C6 (as stated): for every box of three integer pairs, whatever their order
\* or sign, re-splitting package_bounds(box) gives back the six integers.
C6_EveryBoxRoundTrips ==
    pb.stage = "packed" => RoundTrips(pb.bounds, pb.str)

\* C6 (amended): for every box of three pairs of non-negative integers,
\* whatever their order, re-splitting package_bounds(box) gives back the six
\* integers.
C6_NonNegativeBoxRoundTrips ==
    (pb.stage = "packed" /\ NonNegative(pb.bounds)) => RoundTrips(pb.bounds, pb.str)

C6_Witness ==
    /\ pb.stage = "packed"
    /\ NonNegative(pb.bounds)
    /\ pb.bounds[1][1] > pb.bounds[1][2]
    /\ pb.bounds[3][2] >= 10
    /\ Len(pb.str) > 11

\* C7: constructing with an explicit version that is no key of the registry
\* fails with the configuration error (ValueError); no client exists
\* afterwards and no request was issued.
C7_UnknownVersionFails ==
    (/\ ctor.outcome # "none"
     /\ ctor.api_version # LatestV
     /\ ctor.api_version.n \notin DOMAIN ctor.registry) =>
        /\ ctor.outcome = "ValueError"
        /\ self = NoSelf
        /\ heap["self"] = EmptyDict
        /\ nrequests = 0 /\ ncalls = 0
        /\ \A t \in Threads : pc[t] = "idle" /\ ~Sent(t)

C7_Witness ==
    /\ ctor.outcome = "ValueError"
    /\ ctor.api_version = VersionV(1)
    /\ DOMAIN ctor.registry = {0}

\* byte j (0 = least significant) of a 64-bit value held as four 16-bit limbs
ByteOf(limbs, j) == (limbs[(j \div 2) + 1] \div (IF j % 2 = 0 THEN 1 ELSE 256)) % 256

\* C8: get_children on a successful response of 8*n bytes returns n integers,
\* the i-th being the little-endian value of bytes 8i..8i+7; on a byte count
\* that is no multiple of 8 it fails (ValueError) and returns nothing.
C8_ChildrenDecode ==
    \A t \in Threads :
        (Answered(t) /\ call[t].op = "get_children" /\ ~NonSuccess(resp[t].status)) =>
            IF Len(resp[t].content) % 8 = 0
            THEN /\ outcome[t].kind = "value"
                 /\ Len(outcome[t].value.items) * 8 = Len(resp[t].content)
                 /\ \A i \in 1..Len(outcome[t].value.items) : \A j \in 0..7 :
                        ByteOf(outcome[t].value.items[i], j)
                            = resp[t].content[8 * (i - 1) + j + 1]
            ELSE /\ outcome[t].kind = "ValueError"
                 /\ outcome[t].value = NoValue

C8_Witness ==
    /\ Answered("t1") /\ call["t1"].op = "get_children"
    /\ resp["t1"].status = 200
    /\ Len(resp["t1"].content) = 16
    /\ outcome["t1"].kind = "value"
    /\ Len(outcome["t1"].value.items) = 2

\* the call of thread t has gone past format_map
Formatted(t) == pc[t] \in {"built", "responded"} \/ (pc[t] = "done" /\ call[t].op # "none")

FormatFailed(t) == outcome[t].kind = "KeyError" /\ outcome[t].where = "format_map"

\* C9 (as stated): a placeholder that is not in the call's field map makes the
\* call fail before any request; table_id is in the field map only when a
\* table name was given to the constructor.
C9_TableIdNeedsTableName ==
    \A t \in Threads :
        Formatted(t) =>
            /\ FormatFailed(t) <=>
                   LacksField(t, IF ctor.table_name # NoneV THEN {"table_id"} ELSE {})
            /\ FormatFailed(t) => (~Sent(t) /\ resp[t] = NoResp)

\* C9 (amended): a placeholder that is not in the call's field map makes the
\* call fail before any request; table_id is always in the field map, with or
\* without a table name (None is stored and rendered as "None").
C9_MissingFieldFailsBeforeRequest ==
    \A t \in Threads :
        Formatted(t) =>
            /\ FormatFailed(t) <=> LacksField(t, {"table_id"})
            /\ FormatFailed(t) => (~Sent(t) /\ resp[t] = NoResp)
            /\ (~FormatFailed(t) /\ ctor.table_name = NoneV /\ self.endpoints = "std") =>
                   SubSeq(frame[t].url, 1, 5) = <<"/", "N", "o", "n", "e">>

C9_Witness ==
    \E t \in Threads :
        /\ Sent(t)
        /\ ctor.table_name = NoneV
        /\ self.endpoints = "std"
        /\ call[t].op = "get_merge_log"

\* the timestamp get_root_id must send: the argument, else the client's
\* default, else the clock
ChosenTime(t) ==
    IF call[t].timestamp # NoTime THEN call[t].timestamp
    ELSE IF ctor.timestamp # NoTime THEN ctor.timestamp
    ELSE call[t].utcnow

\* C10: get_root_id sends the explicit timestamp when one is given, else the
\* client's default, else the current UTC time; the stored default stays what
\* the constructor was given.
C10_TimestampPrecedence ==
    /\ self.state = "ready" => self.default_timestamp = ctor.timestamp
    /\ \A t \in Threads :
           (Sent(t) /\ call[t].op = "get_root_id") =>
               /\ "timestamp" \in DOMAIN req[t].params
               /\ req[t].params["timestamp"] = IntV(ChosenTime(t).sec - utcoffset)

C10_Witness ==
    \E t \in Threads :
        /\ Sent(t) /\ call[t].op = "get_root_id"
        /\ call[t].timestamp = Time(101, 500)
        /\ ctor.timestamp # NoTime

====
